---------------------------- MODULE Spec2Model ----------------------------
(***************************************************************************)
(* Model of the English text normalizer of normalize_texts/english:       *)
(* TextProcessor.process_text and the helpers it calls, as found in        *)
(* normalize-numbers-and-symbols.py and normalize-numbers.py (the two      *)
(* scripts differ only in their letter-prefix table).                      *)
(*                                                                         *)
(* A text is a sequence of characters; a character is a one-character      *)
(* string, except that a character outside ASCII is written by its code    *)
(* point ("U+20B9").  The regular expressions of the source are modelled   *)
(* by matchers that try the alternatives in the order the pattern lists    *)
(* them and repeat greedily, as Python's re does.  A Python exception that *)
(* leaves a function is modelled by the function returning KeyError or     *)
(* ValueError instead of a text.                                           *)
(***************************************************************************)
EXTENDS Integers, Sequences, FiniteSets, TLC

VARIABLES script, input, stack, status, result, round, prev

vars == <<script, input, stack, status, result, round, prev>>

-----------------------------------------------------------------------------
(* Bounds of the model *)

\* longest input drawn from Alphabet
MaxLen == 3

\* deepest process_text nesting the model lets a run reach
MaxDepth == 4

-----------------------------------------------------------------------------
(* Characters *)

Rupee == "U+20B9"
Euro == "U+20AC"
Pound == "U+00A3"
Degree == "U+00B0"
SectionSign == "U+00A7"
Pilcrow == "U+00B6"
CopyrightSign == "U+00A9"
RegisteredSign == "U+00AE"
TradeMarkSign == "U+2122"

DigitChars == <<"0","1","2","3","4","5","6","7","8","9">>

UpperChars == <<"A","B","C","D","E","F","G","H","I","J","K","L","M","N","O","P","Q","R","S","T","U","V","W","X","Y","Z">>

LowerChars == <<"a","b","c","d","e","f","g","h","i","j","k","l","m","n","o","p","q","r","s","t","u","v","w","x","y","z">>

DigitSet == {DigitChars[k] : k \in 1..10}

UpperSet == {UpperChars[k] : k \in 1..26}

LowerSet == {LowerChars[k] : k \in 1..26}

\* \d of the patterns (the ASCII digits)
IsDigit(c) == c \in DigitSet

\* \s of the patterns, and the separators of str.split()
IsSpace(c) == c \in {" ", "\t", "\n"}

\* [A-Z] under re.IGNORECASE
IsLetter(c) == c \in UpperSet \/ c \in LowerSet

\* case folding of re.IGNORECASE
FoldTable == [c \in UpperSet |-> LowerChars[CHOOSE k \in 1..26 : UpperChars[k] = c]]

Fold(c) == IF c \in UpperSet THEN FoldTable[c] ELSE c

\* int(d) of one digit character
DigitValTable == [c \in DigitSet |-> (CHOOSE k \in 1..10 : DigitChars[k] = c) - 1]

DigitVal(c) == DigitValTable[c]

-----------------------------------------------------------------------------
(* Exceptions *)

KeyError == <<"KeyError">>

ValueError == <<"ValueError">>

IsExc(r) == r = KeyError \/ r = ValueError

-----------------------------------------------------------------------------
(* String helpers of Python used by the source *)

\* text[i:j+1] with 1-based inclusive bounds
Slice(text, i, j) == IF j < i THEN <<>> ELSE SubSeq(text, i, j)

RECURSIVE Join(_, _)
\* sep.join(parts)
Join(sep, parts) ==
    IF parts = <<>> THEN <<>>
    ELSE IF Len(parts) = 1 THEN parts[1]
    ELSE parts[1] \o sep \o Join(sep, Tail(parts))

RECURSIVE IntOf(_)
\* int(s) of a non-empty string of digits
IntOf(s) == IF s = <<>> THEN 0 ELSE IntOf(SubSeq(s, 1, Len(s) - 1)) * 10 + DigitVal(s[Len(s)])

\* the strings int() reads as a decimal: the others raise ValueError
IsInt(s) == s # <<>> /\ \A k \in 1..Len(s) : IsDigit(s[k])

RECURSIVE SplitOn(_, _)
\* s.split(c)
SplitOn(s, c) ==
    IF \A k \in 1..Len(s) : s[k] # c THEN <<s>>
    ELSE LET k == CHOOSE k \in 1..Len(s) : s[k] = c /\ \A j \in 1..(k - 1) : s[j] # c
         IN  <<Slice(s, 1, k - 1)>> \o SplitOn(Slice(s, k + 1, Len(s)), c)

RECURSIVE Replace(_, _, _)
\* text.replace(c, word) for a one-character c
Replace(text, c, word) ==
    IF \A k \in 1..Len(text) : text[k] # c THEN text
    ELSE LET k == CHOOSE k \in 1..Len(text) : text[k] = c /\ \A j \in 1..(k - 1) : text[j] # c
         IN  Slice(text, 1, k - 1) \o word \o Replace(Slice(text, k + 1, Len(text)), c, word)

RECURSIVE NextSpace(_, _)
\* the first position from pos on that holds whitespace, 0 when none does
NextSpace(text, pos) ==
    IF pos > Len(text) THEN 0
    ELSE IF IsSpace(text[pos]) THEN pos
    ELSE NextSpace(text, pos + 1)

RECURSIVE NextWord(_, _)
\* the first position from pos on that holds no whitespace, 0 when none does
NextWord(text, pos) ==
    IF pos > Len(text) THEN 0
    ELSE IF ~IsSpace(text[pos]) THEN pos
    ELSE NextWord(text, pos + 1)

RECURSIVE WordsFrom(_, _)
\* the words of text.split() that start at position pos or later
WordsFrom(text, pos) ==
    LET b == NextWord(text, pos)
    IN  IF b = 0 THEN <<>>
        ELSE LET e == NextSpace(text, b)
             IN  IF e = 0 THEN <<Slice(text, b, Len(text))>>
                 ELSE <<Slice(text, b, e - 1)>> \o WordsFrom(text, e)

\* text.split(): the maximal runs of characters that are not whitespace
Words(text) == WordsFrom(text, 1)

RECURSIVE DigitsEnd(_, _)
\* the position after the digits that start at i (i itself when there is none)
DigitsEnd(text, i) ==
    IF i <= Len(text) /\ IsDigit(text[i]) THEN DigitsEnd(text, i + 1) ELSE i

RECURSIVE SpacesEnd(_, _)
\* the position after the whitespace that starts at i
SpacesEnd(text, i) ==
    IF i <= Len(text) /\ IsSpace(text[i]) THEN SpacesEnd(text, i + 1) ELSE i

\* whether the literal lit stands in text at i
LitAt(text, i, lit) ==
    /\ i + Len(lit) - 1 <= Len(text)
    /\ \A k \in 1..Len(lit) : text[i + k - 1] = lit[k]

\* the same under re.IGNORECASE
LitAtIgnoreCase(text, i, lit) ==
    /\ i + Len(lit) - 1 <= Len(text)
    /\ \A k \in 1..Len(lit) : Fold(text[i + k - 1]) = Fold(lit[k])

\* the position after (?:\.\d+)? tried at i
FractionEnd(text, i) ==
    IF i + 1 <= Len(text) /\ text[i] = "." /\ IsDigit(text[i + 1])
    THEN DigitsEnd(text, i + 1)
    ELSE i

NoMatch == [end |-> 0]

-----------------------------------------------------------------------------
(* The tables of TextProcessor.__init__ *)

units == <<<<"z","e","r","o">>, <<"o","n","e">>, <<"t","w","o">>, <<"t","h","r","e","e">>, <<"f","o","u","r">>, <<"f","i","v","e">>, <<"s","i","x">>,
           <<"s","e","v","e","n">>, <<"e","i","g","h","t">>, <<"n","i","n","e">>, <<"t","e","n">>, <<"e","l","e","v","e","n">>, <<"t","w","e","l","v","e">>,
           <<"t","h","i","r","t","e","e","n">>, <<"f","o","u","r","t","e","e","n">>, <<"f","i","f","t","e","e","n">>, <<"s","i","x","t","e","e","n">>, <<"s","e","v","e","n","t","e","e","n">>,
           <<"e","i","g","h","t","e","e","n">>, <<"n","i","n","e","t","e","e","n">>>>

tens == [d \in 2..9 |->
            <<<<"t","w","e","n","t","y">>, <<"t","h","i","r","t","y">>, <<"f","o","r","t","y">>, <<"f","i","f","t","y">>, <<"s","i","x","t","y">>, <<"s","e","v","e","n","t","y">>,
              <<"e","i","g","h","t","y">>, <<"n","i","n","e","t","y">>>>[d - 1]]

\* in the order of the dict, which is the order the loop walks
scales == <<[scale |-> <<"c","r","o","r","e">>, value |-> 10000000],
            [scale |-> <<"l","a","k","h">>, value |-> 100000],
            [scale |-> <<"t","h","o","u","s","a","n","d">>, value |-> 1000],
            [scale |-> <<"h","u","n","d","r","e","d">>, value |-> 100]>>

currency_symbols == <<[key |-> <<"R","s">>, word |-> <<"R","u","p","e","e","s">>],
                      [key |-> <<Rupee>>, word |-> <<"R","u","p","e","e","s">>],
                      [key |-> <<"$">>, word |-> <<"D","o","l","l","a","r","s">>],
                      [key |-> <<Euro>>, word |-> <<"E","u","r","o","s">>],
                      [key |-> <<Pound>>, word |-> <<"P","o","u","n","d","s">>]>>

symbols == <<[key |-> "%", word |-> <<"p","e","r","c","e","n","t">>],
             [key |-> "@", word |-> <<"a","t">>],
             [key |-> "&", word |-> <<"a","n","d">>],
             [key |-> "+", word |-> <<"p","l","u","s">>],
             [key |-> "=", word |-> <<"e","q","u","a","l","s">>],
             [key |-> "/", word |-> <<"p","e","r">>],
             [key |-> "#", word |-> <<"n","u","m","b","e","r">>],
             [key |-> "*", word |-> <<"a","s","t","e","r","i","s","k">>],
             [key |-> Degree, word |-> <<"d","e","g","r","e","e","s">>],
             [key |-> SectionSign, word |-> <<"s","e","c","t","i","o","n">>],
             [key |-> Pilcrow, word |-> <<"p","a","r","a","g","r","a","p","h">>],
             [key |-> CopyrightSign, word |-> <<"c","o","p","y","r","i","g","h","t">>],
             [key |-> RegisteredSign, word |-> <<"r","e","g","i","s","t","e","r","e","d">>],
             [key |-> TradeMarkSign, word |-> <<"t","r","a","d","e","m","a","r","k">>]>>

\* the table of normalize-numbers.py
letter_prefixes_numbers ==
    <<[key |-> <<"Q">>, word |-> <<"Q","u","a","r","t","e","r">>],
      [key |-> <<"P">>, word |-> <<"P","h","a","s","e">>],
      [key |-> <<"V">>, word |-> <<"V","e","r","s","i","o","n">>],
      [key |-> <<"C","h">>, word |-> <<"C","h","a","p","t","e","r">>],
      [key |-> <<"F","i","g">>, word |-> <<"F","i","g","u","r","e">>],
      [key |-> <<"S","e","c">>, word |-> <<"S","e","c","t","i","o","n">>],
      [key |-> <<"A","p","p">>, word |-> <<"A","p","p","e","n","d","i","x">>],
      [key |-> <<"V","o","l">>, word |-> <<"V","o","l","u","m","e">>],
      [key |-> <<"P","g">>, word |-> <<"P","a","g","e">>],
      [key |-> <<"R","e","v">>, word |-> <<"R","e","v","i","s","i","o","n">>],
      [key |-> <<"I","D">>, word |-> <<"I","D">>],
      [key |-> <<"N","o">>, word |-> <<"N","u","m","b","e","r">>],
      [key |-> <<"R","e","f">>, word |-> <<"R","e","f","e","r","e","n","c","e">>]>>

\* the table of normalize-numbers-and-symbols.py
letter_prefixes_symbols ==
    letter_prefixes_numbers \o
    <<[key |-> <<"T","a","b","l","e">>, word |-> <<"T","a","b","l","e">>],
      [key |-> <<"T","y","p","e">>, word |-> <<"T","y","p","e">>],
      [key |-> <<"L","e","v","e","l">>, word |-> <<"L","e","v","e","l">>],
      [key |-> <<"G","r","a","d","e">>, word |-> <<"G","r","a","d","e">>],
      [key |-> <<"S","t","a","g","e">>, word |-> <<"S","t","a","g","e">>],
      [key |-> <<"S","t","e","p">>, word |-> <<"S","t","e","p">>],
      [key |-> <<"P","a","r","t">>, word |-> <<"P","a","r","t">>]>>

Scripts == {"normalize-numbers-and-symbols.py", "normalize-numbers.py"}

letter_prefixes(s) ==
    IF s = "normalize-numbers.py" THEN letter_prefixes_numbers
    ELSE letter_prefixes_symbols

\* dict.get(key, key) on a table kept as the list of its items
Get(table, key) ==
    IF \E k \in 1..Len(table) : table[k].key = key
    THEN table[CHOOSE k \in 1..Len(table) : table[k].key = key].word
    ELSE key

-----------------------------------------------------------------------------
(* CardinalConverter *)

\* the table for 0..99 built at construction
_generate_lookup_table ==
    [i \in 0..99 |->
        IF i < 20 THEN units[i + 1]
        ELSE LET tens_digit == i \div 10
                 ones_digit == i % 10
             IN  IF ones_digit = 0 THEN tens[tens_digit]
                 ELSE tens[tens_digit] \o <<"-">> \o units[ones_digit + 1]]

number_lookup == _generate_lookup_table

\* self.number_lookup[num]: a KeyError outside 0..99
_process_smaller_number(num) ==
    IF num \in DOMAIN number_lookup THEN number_lookup[num] ELSE KeyError

\* remaining > value in place of remaining >= value
ScaleAppliesStrict(remaining, value) == remaining > value

\* whether the loop over the scales takes the scale of this value
ScaleApplies(remaining, value) == remaining >= value

\* whether the last of parts is an exception in place of a text: the loop
\* has been left by it
Failed(parts) == parts # <<>> /\ IsExc(parts[Len(parts)])

\* parts.append(f"{...} {scale}") for the word w, or the exception w is
AppendPart(parts, w, scale) ==
    IF IsExc(w) THEN Append(parts, w) ELSE Append(parts, w \o <<" ">> \o scale)

RECURSIVE ScaleLoop(_, _, _)
\* the loop over self.scales.items() from the k-th scale on
ScaleLoop(k, remaining, parts) ==
    IF k > Len(scales) \/ Failed(parts) THEN [remaining |-> remaining, parts |-> parts]
    ELSE IF ScaleApplies(remaining, scales[k].value)
              /\ remaining \div scales[k].value > 0
         THEN ScaleLoop(k + 1, remaining % scales[k].value,
                  AppendPart(parts,
                             _process_smaller_number(remaining \div scales[k].value),
                             scales[k].scale))
         ELSE ScaleLoop(k + 1,
                        IF ScaleApplies(remaining, scales[k].value)
                        THEN remaining % scales[k].value ELSE remaining,
                        parts)

\* return ', '.join(parts), or the exception that ended the building of parts
JoinParts(parts) ==
    IF Failed(parts) THEN parts[Len(parts)] ELSE Join(<<","," ">>, parts)

\* the statements after the loop: the word of what remains, and the join
AfterScales(r) ==
    JoinParts(IF r.remaining > 0 /\ ~Failed(r.parts)
              THEN Append(r.parts, _process_smaller_number(r.remaining))
              ELSE r.parts)

_process_number(num) ==
    IF num = 0 THEN units[1] ELSE AfterScales(ScaleLoop(1, num, <<>>))

RECURSIVE DigitsKept(_)
\* [d for d in decimal_part]: the digits as they stand, not their words
DigitsKept(decimal_part) ==
    IF decimal_part = <<>> THEN <<>>
    ELSE << <<decimal_part[1]>> >> \o DigitsKept(Tail(decimal_part))

RECURSIVE DigitWords(_)
\* [self.units[int(d)] for d in decimal_part], with ValueError in the place
\* of a character that int() does not read
DigitWords(decimal_part) ==
    IF decimal_part = <<>> THEN <<>>
    ELSE <<IF IsDigit(decimal_part[1]) THEN units[DigitVal(decimal_part[1]) + 1]
           ELSE ValueError>>
         \o DigitWords(Tail(decimal_part))

\* f"{integer_words} point {decimal_words}", or the exception raised on the
\* way to it
PointWords(integer_words, digit_words) ==
    IF IsExc(integer_words) THEN integer_words
    ELSE IF \E k \in 1..Len(digit_words) : IsExc(digit_words[k]) THEN ValueError
    ELSE integer_words \o <<" ","p","o","i","n","t"," ">> \o Join(<<" ">>, digit_words)

\* the try block of _handle_decimal, from the unpacking of the split on
DecimalOfPieces(pieces) ==
    IF Len(pieces) # 2 THEN ValueError
    ELSE IF ~IsInt(pieces[1]) THEN ValueError
    ELSE PointWords(_process_number(IntOf(pieces[1])), DigitWords(pieces[2]))

\* the except block of _handle_decimal, entered on a ValueError of the try
\* block r
DecimalFallback(num_str, r) ==
    IF r = ValueError
    THEN (IF IsInt(num_str) THEN _process_number(IntOf(num_str)) ELSE ValueError)
    ELSE r

_handle_decimal(num_str) ==
    DecimalFallback(num_str, DecimalOfPieces(SplitOn(num_str, ".")))

-----------------------------------------------------------------------------
(* Letter-prefix pass *)

\* the least of a set of positions or of places in a list, 0 when it is empty
First(ks) == IF ks = {} THEN 0 ELSE CHOOSE k \in ks : \A j \in ks : k <= j

\* the length of the k-th alternative of ({prefix_pattern}|[A-Z]): the
\* prefixes of the table in its order, then the single letter
ChoiceLen(table, k) == IF k <= Len(table) THEN Len(table[k].key) ELSE 1

\* the alternatives of ({prefix_pattern}|[A-Z]) that stand at i and have a
\* digit after them
PrefixChoices(text, i, table) ==
    {k \in 1..(Len(table) + 1) :
        /\ i + ChoiceLen(table, k) <= Len(text)
        /\ IsDigit(text[i + ChoiceLen(table, k)])
        /\ IF k <= Len(table) THEN LitAtIgnoreCase(text, i, table[k].key)
           ELSE IsLetter(text[i])}

\* the groups of a match at i whose prefix is n long and whose digits end
\* before d: (\.?\d*) takes a '.' at d and the digits after it
LetterGroups(text, i, n, d) ==
    [end |-> IF d <= Len(text) /\ text[d] = "." THEN DigitsEnd(text, d + 1) ELSE d,
     prefix |-> Slice(text, i, i + n - 1),
     number |-> Slice(text, i + n, d - 1),
     decimal |-> IF d <= Len(text) /\ text[d] = "."
                 THEN Slice(text, d, DigitsEnd(text, d + 1) - 1) ELSE <<>>]

\* the match at i that takes the alternative of length n
LetterMatchOfLen(text, i, n) == LetterGroups(text, i, n, DigitsEnd(text, i + n))

\* the match at i that takes the k-th alternative; none for k = 0
LetterMatchBy(text, i, table, k) ==
    IF k = 0 THEN NoMatch ELSE LetterMatchOfLen(text, i, ChoiceLen(table, k))

\* the match of ({prefix_pattern}|[A-Z])(\d+)(\.?\d*) at i: the first
\* alternative that stands there with a digit after it
LetterMatchAt(text, i, table) ==
    LetterMatchBy(text, i, table, First(PrefixChoices(text, i, table)))

\* f"{full_prefix} {number_word}", or the exception number_word is
PrefixedWords(full_prefix, number_word) ==
    IF IsExc(number_word) THEN number_word
    ELSE full_prefix \o <<" ">> \o number_word

\* replace_match
replace_match(m, table) ==
    PrefixedWords(Get(table, m.prefix),
                  IF m.decimal # <<>>
                  THEN _handle_decimal(m.number \o m.decimal)
                  ELSE _process_number(IntOf(m.number)))

RECURSIVE NextLetter(_, _, _)
\* where the scan for the letter-number pattern finds its next match from
\* pos on, 0 when there is none
NextLetter(text, pos, table) ==
    IF pos > Len(text) THEN 0
    ELSE IF PrefixChoices(text, pos, table) # {} THEN pos
    ELSE NextLetter(text, pos + 1, table)

\* the text re.sub builds: what stands before the match, the replacement
\* and the text built from the rest, or the exception the callback raised
SubResult(before, replacement, rest) ==
    IF IsExc(replacement) THEN replacement
    ELSE IF IsExc(rest) THEN rest
    ELSE before \o replacement \o rest

RECURSIVE LetterSub(_, _, _)

\* re.sub from pos on, the next match being at i
LetterSubAt(text, pos, table, i) ==
    IF i = 0 THEN Slice(text, pos, Len(text))
    ELSE SubResult(Slice(text, pos, i - 1),
                   replace_match(LetterMatchAt(text, i, table), table),
                   LetterSub(text, LetterMatchAt(text, i, table).end, table))

\* re.sub(pattern, replace_match, text, flags=re.IGNORECASE) from position pos
LetterSub(text, pos, table) == LetterSubAt(text, pos, table, NextLetter(text, pos, table))

_process_letter_number_combination(text, table) == LetterSub(text, 1, table)

-----------------------------------------------------------------------------
(* Percentage pass *)

\* the match at i of a number that ends before f: \s*% has to follow
PercentMatchOf(text, i, f) ==
    IF SpacesEnd(text, f) <= Len(text) /\ text[SpacesEnd(text, f)] = "%"
    THEN [end |-> SpacesEnd(text, f) + 1, number |-> Slice(text, i, f - 1)]
    ELSE NoMatch

\* the match of (\d+(?:\.\d+)?)\s*% at i
PercentMatchAt(text, i) ==
    IF ~(i <= Len(text) /\ IsDigit(text[i])) THEN NoMatch
    ELSE PercentMatchOf(text, i, FractionEnd(text, DigitsEnd(text, i)))

\* match.group(0) in place of match.group(1): the '%' goes along
PercentArgumentWhole(m) == m.number \o <<"%">>

\* what _handle_percentage hands to the nested process_text
PercentArgument(m) == m.number

\* what _handle_percentage returns once the nested call has returned
PercentResult(processed_number) == processed_number \o <<" ","p","e","r","c","e","n","t">>

-----------------------------------------------------------------------------
(* Generic symbol pass *)

RECURSIVE SymbolLoop(_, _)
\* the loop over self.symbols.items() from the k-th symbol on
SymbolLoop(text, k) ==
    IF k > Len(symbols) THEN text
    ELSE IF symbols[k].key # "%"
         THEN SymbolLoop(Replace(text, symbols[k].key, <<" ">> \o symbols[k].word \o <<" ">>), k + 1)
         ELSE SymbolLoop(text, k + 1)

-----------------------------------------------------------------------------
(* Numeral-span pass *)

\* the alternatives of (Rs|U+20B9|\$|U+20AC|U+00A3), in the pattern's order
CurrencyLiterals == <<<<"R","s">>, <<Rupee>>, <<"$">>, <<Euro>>, <<Pound>>>>

\* the alternatives of (AD|BC|CE|BCE), in the pattern's order
EraLiterals == <<<<"A","D">>, <<"B","C">>, <<"C","E">>, <<"B","C","E">>>>

\* the first of the literals that stands in text at i, 0 when none does
FirstLiteralAt(text, i, literals) ==
    First({k \in 1..Len(literals) : LitAt(text, i, literals[k])})

\* the currency match whose symbol is read and whose whitespace ends
\* before s: \d+(?:\.\d+)? has to follow
CurrencyAmountAt(text, symbol, s) ==
    IF s <= Len(text) /\ IsDigit(text[s])
    THEN [end |-> FractionEnd(text, DigitsEnd(text, s)),
          symbol |-> symbol,
          amount |-> Slice(text, s, FractionEnd(text, DigitsEnd(text, s)) - 1)]
    ELSE NoMatch

\* the currency match at i that takes the k-th symbol; none for k = 0
CurrencyMatchBy(text, i, k) ==
    IF k = 0 THEN NoMatch
    ELSE CurrencyAmountAt(text, CurrencyLiterals[k],
                          SpacesEnd(text, i + Len(CurrencyLiterals[k])))

\* the match of (Rs|...)\s*(\d+(?:\.\d+)?) at i
CurrencyMatchAt(text, i) ==
    CurrencyMatchBy(text, i, FirstLiteralAt(text, i, CurrencyLiterals))

\* the number match at i whose number ends before f, k being the era read
\* after the whitespace that ends before s (0 for none)
NumberWithEra(text, i, f, s, k) ==
    [end |-> IF k = 0 THEN f ELSE s + Len(EraLiterals[k]),
     num |-> Slice(text, i, f - 1),
     suffix |-> IF k = 0 THEN <<>> ELSE EraLiterals[k]]

\* the number match at i whose number ends before f
NumberMatchOf(text, i, f) ==
    NumberWithEra(text, i, f, SpacesEnd(text, f),
                  FirstLiteralAt(text, SpacesEnd(text, f), EraLiterals))

\* the match of \d+(?:\.\d+)?(?:\s*(?:AD|BC|CE|BCE))? at i, which is also
\* where (\d+(?:\.\d+)?)\s*(AD|BC|CE|BCE)? of process_match finds its groups
NumberMatchAt(text, i) ==
    IF ~(i <= Len(text) /\ IsDigit(text[i])) THEN NoMatch
    ELSE NumberMatchOf(text, i, FractionEnd(text, DigitsEnd(text, i)))

\* the match of (\d{4})-(\d{2}) at i
YearRangeMatchAt(text, i) ==
    IF /\ i + 6 <= Len(text)
       /\ \A k \in 0..3 : IsDigit(text[i + k])
       /\ text[i + 4] = "-"
       /\ \A k \in 5..6 : IsDigit(text[i + k])
    THEN [end |-> i + 7, full_year |-> Slice(text, i, i + 3),
          short_year |-> Slice(text, i + 5, i + 6)]
    ELSE NoMatch

\* where the first of three alternatives that matches ends, 0 when none does
FirstMatchEnd(c, n, y) ==
    IF c # NoMatch THEN c.end ELSE IF n # NoMatch THEN n.end ELSE y.end

\* where the match at i of the pattern of the numeral-span pass ends: the
\* currency amount, else the number with its era, else the year range
NumeralMatchAt(text, i) ==
    FirstMatchEnd(CurrencyMatchAt(text, i), NumberMatchAt(text, i),
                  YearRangeMatchAt(text, i))

_process_year_range(m) ==
    LET decade == Slice(m.full_year, 3, 4)
        first_year == <<"t","w","e","n","t","y"," ">> \o number_lookup[IntOf(decade)]
        second_year == <<"t","w","e","n","t","y"," ">> \o number_lookup[IntOf(m.short_year)]
    IN  first_year \o <<"-">> \o second_year

RECURSIVE YearSub(_, _)
\* re.sub(year_range_pattern, self._process_year_range, full_match) from i
YearSub(text, i) ==
    IF i > Len(text) THEN <<>>
    ELSE LET m == YearRangeMatchAt(text, i)
         IN  IF m = NoMatch THEN <<text[i]>> \o YearSub(text, i + 1)
             ELSE _process_year_range(m) \o YearSub(text, m.end)

\* str.strip()
Strip(text) ==
    LET keep == {k \in 1..Len(text) : ~IsSpace(text[k])}
    IN  IF keep = {} THEN <<>>
        ELSE Slice(text, CHOOSE k \in keep : \A j \in keep : k <= j,
                         CHOOSE k \in keep : \A j \in keep : k >= j)

\* f"{words} {suffix}".strip(), or the exception words is
NumberResult(words, suffix) ==
    IF IsExc(words) THEN [kind |-> "raise", value |-> words]
    ELSE [kind |-> "text", value |-> Strip(words \o <<" ">> \o suffix)]

\* process_match after the year ranges, with what its two re.match calls find
MatchResult(full_match, currency_match, num_match) ==
    IF currency_match # NoMatch
    THEN [kind |-> "call", amount |-> currency_match.amount,
          symbol |-> currency_match.symbol]
    ELSE IF num_match # NoMatch
    THEN NumberResult(IF \E k \in 1..Len(num_match.num) : num_match.num[k] = "."
                      THEN _handle_decimal(num_match.num)
                      ELSE _process_number(IntOf(num_match.num)),
                      num_match.suffix)
    ELSE [kind |-> "text", value |-> full_match]

\* process_match up to its call of _handle_currency: the text it returns,
\* the exception it raises, or the call it makes
process_match(full_match) ==
    IF \E i \in 1..Len(full_match) : YearRangeMatchAt(full_match, i) # NoMatch
    THEN [kind |-> "text", value |-> YearSub(full_match, 1)]
    ELSE MatchResult(full_match, CurrencyMatchAt(full_match, 1),
                     NumberMatchAt(full_match, 1))

\* what _handle_currency hands to the nested process_text
CurrencyArgument(amount, symbol) == amount

\* what _handle_currency returns once the nested call has returned
CurrencyResult(symbol, amount_in_words) ==
    Get(currency_symbols, symbol) \o <<" ">> \o amount_in_words

-----------------------------------------------------------------------------
(* process_text as a machine: one frame per call in progress *)

RECURSIVE NextPercent(_, _)
\* where the percentage re.sub finds its next match from pos on, 0 when
\* there is none
NextPercent(text, pos) ==
    IF pos > Len(text) THEN 0
    ELSE IF PercentMatchAt(text, pos) # NoMatch THEN pos
    ELSE NextPercent(text, pos + 1)

RECURSIVE NextNumeral(_, _)
\* where the numeral re.sub finds its next match from pos on
NextNumeral(text, pos) ==
    IF pos > Len(text) THEN 0
    ELSE IF NumeralMatchAt(text, pos) # 0 THEN pos
    ELSE NextNumeral(text, pos + 1)

\* the frame of a call process_text(text)
Frame(text) ==
    [pc |-> "letters", text |-> text, pos |-> 1, out |-> <<>>, symbol |-> <<>>]

depth == Len(stack)

top == stack[depth]

\* the stack with its top frame replaced
SetTop(f) == [stack EXCEPT ![depth] = f]

\* an exception no frame catches: every call in progress is abandoned
Raise(exc) ==
    /\ stack' = <<>>
    /\ status' = "raised"
    /\ result' = exc
    /\ UNCHANGED <<script, input, round, prev>>

\* the letter-prefix pass ends with the text or the exception r
LetterPassEnds(r) ==
    IF IsExc(r) THEN Raise(r)
    ELSE /\ stack' = SetTop([top EXCEPT !.pc = "percent", !.text = r])
         /\ UNCHANGED <<script, input, status, result, round, prev>>

\* text = self._process_letter_number_combination(text)
LetterPass ==
    /\ status = "running"
    /\ top.pc = "letters"
    /\ LetterPassEnds(_process_letter_number_combination(top.text, letter_prefixes(script)))

\* the percentage re.sub reaches a match: _handle_percentage calls process_text
PercentCall ==
    /\ status = "running"
    /\ top.pc = "percent"
    /\ depth < MaxDepth
    /\ LET i == NextPercent(top.text, top.pos)
       IN  /\ i # 0
           /\ LET m == PercentMatchAt(top.text, i)
              IN  stack' = Append(
                      SetTop([top EXCEPT !.out = @ \o Slice(top.text, top.pos, i - 1),
                                         !.pos = m.end]),
                      Frame(PercentArgument(m)))
    /\ UNCHANGED <<script, input, status, result, round, prev>>

\* the percentage re.sub finds no further match
PercentEnd ==
    /\ status = "running"
    /\ top.pc = "percent"
    /\ NextPercent(top.text, top.pos) = 0
    /\ stack' = SetTop([top EXCEPT
                    !.pc = "symbols",
                    !.text = top.out \o Slice(top.text, top.pos, Len(top.text)),
                    !.pos = 1, !.out = <<>>])
    /\ UNCHANGED <<script, input, status, result, round, prev>>

\* the loop over self.symbols
SymbolPass ==
    /\ status = "running"
    /\ top.pc = "symbols"
    /\ stack' = SetTop([top EXCEPT !.pc = "numerals", !.text = SymbolLoop(top.text, 1)])
    /\ UNCHANGED <<script, input, status, result, round, prev>>

\* the span at i that ends before e, and what process_match makes of it
SpanTo(text, i, e) ==
    [at |-> i, end |-> e, r |-> process_match(Slice(text, i, e - 1))]

\* the span the numeral re.sub finds at i; none for i = 0
SpanAt(text, i) ==
    IF i = 0 THEN [at |-> 0] ELSE SpanTo(text, i, NumeralMatchAt(text, i))

\* the next span the numeral re.sub reaches from pos on
NextSpan(text, pos) == SpanAt(text, NextNumeral(text, pos))

\* process_match has rendered the span m, or has raised
NumeralTextOf(m) ==
    /\ m.at # 0
    /\ m.r.kind # "call"
    /\ IF m.r.kind = "raise" THEN Raise(m.r.value)
       ELSE /\ stack' = SetTop([top EXCEPT
                   !.out = @ \o Slice(top.text, top.pos, m.at - 1) \o m.r.value,
                   !.pos = m.end])
            /\ UNCHANGED <<script, input, status, result, round, prev>>

\* the numeral re.sub reaches a match that process_match renders itself
NumeralText ==
    /\ status = "running"
    /\ top.pc = "numerals"
    /\ NumeralTextOf(NextSpan(top.text, top.pos))

\* process_match calls _handle_currency for the span m
NumeralCallOf(m) ==
    /\ m.at # 0
    /\ m.r.kind = "call"
    /\ stack' = Append(
           SetTop([top EXCEPT !.out = @ \o Slice(top.text, top.pos, m.at - 1),
                              !.pos = m.end, !.symbol = m.r.symbol]),
           Frame(CurrencyArgument(m.r.amount, m.r.symbol)))
    /\ UNCHANGED <<script, input, status, result, round, prev>>

\* the numeral re.sub reaches a currency amount: _handle_currency calls
\* process_text
NumeralCall ==
    /\ status = "running"
    /\ top.pc = "numerals"
    /\ depth < MaxDepth
    /\ NumeralCallOf(NextSpan(top.text, top.pos))

\* the numeral re.sub finds no further match
NumeralEnd ==
    /\ status = "running"
    /\ top.pc = "numerals"
    /\ NextNumeral(top.text, top.pos) = 0
    /\ stack' = SetTop([top EXCEPT
                    !.pc = "spaces",
                    !.text = top.out \o Slice(top.text, top.pos, Len(top.text)),
                    !.pos = 1, !.out = <<>>])
    /\ UNCHANGED <<script, input, status, result, round, prev>>

RECURSIVE ReplacePairs(_, _)
\* text.replace('  ', ' ') from position i
ReplacePairs(text, i) ==
    IF i > Len(text) THEN <<>>
    ELSE IF i < Len(text) /\ text[i] = " " /\ text[i + 1] = " "
         THEN <<" ">> \o ReplacePairs(text, i + 2)
         ELSE <<text[i]>> \o ReplacePairs(text, i + 1)

\* text.replace('  ', ' ') in place of ' '.join(text.split())
CollapseSpacesOnce(text) == ReplacePairs(text, 1)

\* ' '.join(text.split())
CollapseSpaces(text) == Join(<<" ">>, Words(text))

\* return ' '.join(text.split())
Spaces ==
    /\ status = "running"
    /\ top.pc = "spaces"
    /\ stack' = SetTop([top EXCEPT !.pc = "return", !.text = CollapseSpaces(top.text)])
    /\ UNCHANGED <<script, input, status, result, round, prev>>

\* a nested call returns into _handle_percentage or _handle_currency
ReturnNested ==
    /\ status = "running"
    /\ top.pc = "return"
    /\ depth > 1
    /\ LET caller == stack[depth - 1]
           r == IF caller.pc = "percent" THEN PercentResult(top.text)
                ELSE CurrencyResult(caller.symbol, top.text)
       IN  stack' = Append(SubSeq(stack, 1, depth - 2),
                           [caller EXCEPT !.out = @ \o r, !.symbol = <<>>])
    /\ UNCHANGED <<script, input, status, result, round, prev>>

\* the outermost call returns to its caller
ReturnOuter ==
    /\ status = "running"
    /\ top.pc = "return"
    /\ depth = 1
    /\ stack' = <<>>
    /\ status' = "returned"
    /\ result' = top.text
    /\ UNCHANGED <<script, input, round, prev>>

\* the caller hands the text it got back to process_text once more
CallAgain ==
    /\ status = "returned"
    /\ round = 1
    /\ stack' = <<Frame(result)>>
    /\ status' = "running"
    /\ prev' = result
    /\ round' = round + 1
    /\ UNCHANGED <<script, input, result>>

-----------------------------------------------------------------------------
(* The texts process_text is called on *)

Alphabet == {"1", "5", ".", "%", " ", "Q", "q", "-", "$", "@"}

\* every text of at most MaxLen characters of Alphabet
ShortTexts == UNION {[1..n -> Alphabet] : n \in 0..MaxLen}

RECURSIVE DecimalString(_)
\* str(n) for n >= 0
DecimalString(n) ==
    IF n < 10 THEN <<DigitChars[n + 1]>>
    ELSE DecimalString(n \div 10) \o <<DigitChars[(n % 10) + 1]>>

\* counts of crore, lakh and thousand; of hundred; and the last two digits
ScaleCounts == {0, 1, 25, 99}

HundredCounts == {0, 1, 9}

LastTwo == {0, 7, 19, 20, 43}

\* numerals below 100 crore, and some from 100 crore on
Numerals ==
    {DecimalString(c * 10000000 + l * 100000 + t * 1000 + h * 100 + r) :
        c \in ScaleCounts, l \in ScaleCounts, t \in ScaleCounts,
        h \in HundredCounts, r \in LastTwo}
    \cup {<<"1","0","0","0","0","0","0","0","0","0">>, <<"1","0","0","0","0","0","0","0","0","7">>, <<"2","1","4","7","4","8","3","6","4","7">>, <<"0","0","7">>, <<"1","0","2","3","7">>}

Amounts == {<<"5">>, <<"1","5">>, <<"1","0","0">>, <<"1","7",".","5">>, <<"1","0","2","3","7",".","3","3">>, <<"1","0","0","0","0","0","0","0","0","0">>}

Gaps == {<<>>, <<" ">>, <<" "," ">>, <<"\t">>}

YearRanges ==
    {y \o <<"-">> \o s : y \in {<<"2","0","2","4">>, <<"2","0","2","5">>, <<"1","9","9","9">>, <<"2","0","0","0">>},
                      s \in {<<"2","5">>, <<"2","6">>, <<"0","0">>, <<"0","7">>}}

CurrencyTexts ==
    {CurrencyLiterals[k] \o g \o a : k \in 1..Len(CurrencyLiterals), g \in Gaps, a \in Amounts}

RECURSIVE MapChars(_, _)
MapChars(text, from_to) ==
    IF text = <<>> THEN <<>>
    ELSE LET ks == {k \in 1..26 : from_to[1][k] = text[1]}
         IN  <<IF ks = {} THEN text[1] ELSE from_to[2][CHOOSE k \in ks : TRUE]>>
             \o MapChars(Tail(text), from_to)

\* a prefix as the table writes it, in capitals and in small letters
Casings(key) == {key, MapChars(key, <<LowerChars, UpperChars>>),
                 MapChars(key, <<UpperChars, LowerChars>>)}

PrefixTexts ==
    {p \o n \o t :
        p \in UNION {Casings(letter_prefixes_symbols[k].key) :
                        k \in 1..Len(letter_prefixes_symbols)},
        n \in {<<"1">>, <<"1","2">>, <<"1","0","0">>},
        t \in {<<>>, <<".">>, <<".","5">>, <<"%">>, <<" ","A","D">>}}

PercentTexts ==
    {b \o a \o g \o <<"%">> \o e :
        b \in {<<>>, <<"Q">>, <<"x"," ">>, <<"R","s"," ">>, <<"1",".">>}, a \in Amounts,
        g \in {<<>>, <<" ">>}, e \in {<<>>, <<"3">>, <<" ","x">>}}

MalformedDecimals == {<<"1","2",".","3","4",".","5","6">>, <<"1",".","2",".","3">>, <<"1",".",".","2">>, <<"1",".","2",".","3",".","4">>, <<"1",".">>, <<".","5">>,
                      <<"1","0","0","0","0","0","0","0","0","0",".","5",".","5">>}

\* from the test cases of main()
DemoTexts == {<<"G","r","o","w","t","h"," ","r","a","t","e"," ","w","a","s"," ","1","5","%"," ","i","n"," ","Q","1"," ","&"," ","1","7",".","5","%"," ","i","n"," ","Q","2">>,
              <<"P","l","e","a","s","e"," ","c","o","n","t","a","c","t"," ","s","u","p","p","o","r","t","@","c","o","m","p","a","n","y",".","c","o","m">>,
              <<"A","&","B"," ","E","n","t","e","r","p","r","i","s","e","s"," ","m","a","d","e"," ","$","1","5","2","5",".","7","5"," ","@"," ","t","h","e","i","r"," ","s","t","o","r","e">>,
              <<"S","c","o","r","e",":"," ","9","5","/","1","0","0"," ","="," ","9","5","%">>,
              <<"U","p","g","r","a","d","e"," ","f","r","o","m"," ","V","1",".","0"," ","t","o"," ","V","2",".","1"," ","i","s"," ","c","o","m","p","l","e","t","e">>,
              <<"S","e","e"," ","F","i","g","1"," ","a","n","d"," ","F","i","g","2"," ","i","n"," ","C","h","3">>,
              <<"P","h","a","s","e"," ","P","1"," ","&"," ","P","2"," ","a","r","e"," ","c","o","m","p","l","e","t","e">>,
              <<"T","a","b","l","e","5"," ","s","h","o","w","s"," ","d","a","t","a"," ","f","r","o","m"," ","I","D","1","2","3">>,
              <<"R","s"," ","1","0","2","3","7",".","3","3"," ","c","r","o","r","e"," ","i","n"," ","2","0","2","4","-","2","5">>,
              <<"T","e","m","p","e","r","a","t","u","r","e"," ","i","n","c","r","e","a","s","e","d"," ","b","y"," ","2",".","5">> \o <<Degree>> \o <<" ","&"," ","h","u","m","i","d","i","t","y"," ","b","y"," ","5","%">>,
              <<"5","0","0"," ","B","C","E">>, <<"5"," ","A","D">>, <<"4","4","B","C">>}

Inputs == ShortTexts \cup Numerals \cup YearRanges \cup CurrencyTexts
          \cup PrefixTexts \cup PercentTexts \cup MalformedDecimals \cup DemoTexts

-----------------------------------------------------------------------------
(* Specification *)

Init ==
    /\ script \in Scripts
    /\ input \in Inputs
    /\ stack = <<Frame(input)>>
    /\ status = "running"
    /\ result = <<>>
    /\ round = 1
    /\ prev = <<>>

Next ==
    \/ LetterPass
    \/ PercentCall
    \/ PercentEnd
    \/ SymbolPass
    \/ NumeralText
    \/ NumeralCall
    \/ NumeralEnd
    \/ Spaces
    \/ ReturnNested
    \/ ReturnOuter
    \/ CallAgain

Spec == Init /\ [][Next]_vars

-----------------------------------------------------------------------------
(* Vocabulary of the properties *)

\* the first call of process_text has ended, by a return or by an exception
Finished == round = 1 /\ status \in {"returned", "raised"}

\* the first call of process_text has returned
Returned == round = 1 /\ status = "returned"

Contains(text, part) == \E i \in 1..(Len(text) - Len(part) + 1) : LitAt(text, i, part)

HasDigit(text) == \E k \in 1..Len(text) : IsDigit(text[k])

SymbolKeys == {symbols[k].key : k \in 1..Len(symbols)}

HasSymbol(text) == \E k \in 1..Len(text) : text[k] \in SymbolKeys

\* digits, or digits '.' digits
IsBareNumeral(text) ==
    \/ IsInt(text)
    \/ \E k \in 2..(Len(text) - 1) :
          /\ text[k] = "."
          /\ IsInt(Slice(text, 1, k - 1))
          /\ IsInt(Slice(text, k + 1, Len(text)))

\* the words of a bare numeral: of an integer, or of a decimal
NumeralWords(num) ==
    IF \E k \in 1..Len(num) : num[k] = "." THEN _handle_decimal(num)
    ELSE _process_number(IntOf(num))

-----------------------------------------------------------------------------
(* C1 *)

\* C1: process_text is total: whatever the input, also one with a numeral of
\* 1,000,000,000 or more, the call returns and raises no exception.
C1_ProcessTextTotal == status # "raised"

-----------------------------------------------------------------------------
(* C2 *)

\* a four-digit year, a hyphen and a two-digit year, and nothing else
IsYearRange(text) == Len(text) = 7 /\ YearRangeMatchAt(text, 1) # NoMatch

YearRangeWords(text) ==
    <<"t","w","e","n","t","y"," ">> \o number_lookup[IntOf(Slice(text, 3, 4))] \o <<"-","t","w","e","n","t","y"," ">>
    \o number_lookup[IntOf(Slice(text, 6, 7))]

\* C2: for an input that is a four-digit year, a hyphen and a two-digit year,
\* process_text returns "twenty <last two digits of the year in words>-twenty
\* <the two-digit year in words>"; "2024-25" gives
\* "twenty twenty-four-twenty twenty-five".
C2_YearRangeWords ==
    (Finished /\ IsYearRange(input)) =>
        /\ status = "returned"
        /\ result = YearRangeWords(input)
        /\ input = <<"2","0","2","4","-","2","5">> => result = <<"t","w","e","n","t","y"," ","t","w","e","n","t","y","-","f","o","u","r","-","t","w","e","n","t","y"," ","t","w","e","n","t","y","-","f","i","v","e">>

-----------------------------------------------------------------------------
(* C3 *)

\* digits and '.', from a digit on, with more than one '.'
IsMalformedDecimal(text) ==
    /\ \A k \in 1..Len(text) : IsDigit(text[k]) \/ text[k] = "."
    /\ text # <<>> /\ IsDigit(text[1])
    /\ Cardinality({k \in 1..Len(text) : text[k] = "."}) > 1

\* C3: a token with more than one decimal point is returned by process_text
\* unchanged, and no exception is raised.
C3_MalformedDecimalUnchanged ==
    (Finished /\ IsMalformedDecimal(input)) =>
        (status = "returned" /\ result = input)

-----------------------------------------------------------------------------
(* C4 *)

\* "<word of count> <scale>" for the scales, in their order, whose count is
\* not zero, then the word of the last two digits when they are not zero
ScaleSegments(n) ==
    LET counts == <<n \div 10000000, (n % 10000000) \div 100000,
                    (n % 100000) \div 1000, (n % 1000) \div 100>>
        names == <<<<"c","r","o","r","e">>, <<"l","a","k","h">>, <<"t","h","o","u","s","a","n","d">>, <<"h","u","n","d","r","e","d">>>>
        Segment(k) == IF counts[k] = 0 THEN <<>>
                      ELSE <<number_lookup[counts[k]] \o <<" ">> \o names[k]>>
    IN  Segment(1) \o Segment(2) \o Segment(3) \o Segment(4)
        \o (IF n % 100 = 0 THEN <<>> ELSE <<number_lookup[n % 100]>>)

\* C4: for 0 <= n < 1,000,000,000, to_words(n) is "zero" when n = 0 and
\* otherwise the ", "-joined list, in the order crore, lakh, thousand,
\* hundred, of "<word of count> <scale>" for the scales whose count is not
\* zero, followed by the word of the final remainder when it is not zero;
\* to_words(19) = "nineteen", to_words(43) = "forty-three", to_words(100) =
\* "one hundred", to_words(125000) = "one lakh, twenty-five thousand".
C4_ToWords ==
    (Finished /\ IsInt(input) /\ Len(input) <= 9) =>
        LET n == IntOf(input)
        IN  /\ status = "returned"
            /\ result = IF n = 0 THEN <<"z","e","r","o">> ELSE Join(<<","," ">>, ScaleSegments(n))
            /\ n = 19 => result = <<"n","i","n","e","t","e","e","n">>
            /\ n = 43 => result = <<"f","o","r","t","y","-","t","h","r","e","e">>
            /\ n = 100 => result = <<"o","n","e"," ","h","u","n","d","r","e","d">>
            /\ n = 125000 => result = <<"o","n","e"," ","l","a","k","h",","," ","t","w","e","n","t","y","-","f","i","v","e"," ","t","h","o","u","s","a","n","d">>

C4_Witness ==
    /\ Returned
    /\ input = <<"1","2","5","0","0","0">>
    /\ result = <<"o","n","e"," ","l","a","k","h",","," ","t","w","e","n","t","y","-","f","i","v","e"," ","t","h","o","u","s","a","n","d">>

-----------------------------------------------------------------------------
(* C5 *)

\* a currency symbol, whitespace or none, and a numeral, and nothing else
IsCurrencyAmount(text) ==
    /\ CurrencyMatchAt(text, 1) # NoMatch
    /\ CurrencyMatchAt(text, 1).end = Len(text) + 1

\* C5: for each of the five currency symbols followed by whitespace or none
\* and a numeral, process_text gives "<currency name> <amount in words>";
\* "Rs 100" gives "Rupees one hundred".
C5_CurrencyWords ==
    (Finished /\ IsCurrencyAmount(input)) =>
        LET m == CurrencyMatchAt(input, 1)
        IN  /\ status = "returned"
            /\ result = Get(currency_symbols, m.symbol) \o <<" ">> \o NumeralWords(m.amount)
            /\ input = <<"R","s"," ","1","0","0">> => result = <<"R","u","p","e","e","s"," ","o","n","e"," ","h","u","n","d","r","e","d">>

-----------------------------------------------------------------------------
(* C6 *)

\* the prefixes of the table that, in some letter case, make text together
\* with the digits after them
PrefixesOf(text, table) ==
    {k \in 1..Len(table) :
        /\ LitAtIgnoreCase(text, 1, table[k].key)
        /\ IsInt(Slice(text, Len(table[k].key) + 1, Len(text)))}

\* C6: a prefix of the letter-prefix table, in any letter case, immediately
\* followed by digits is replaced by "<the table's expansion> <number in
\* words>"; "Q1" gives "Quarter one" and "Fig1" gives "Figure one".
C6_PrefixExpanded ==
    Finished =>
        \A k \in PrefixesOf(input, letter_prefixes(script)) :
            LET entry == letter_prefixes(script)[k]
            IN  /\ status = "returned"
                /\ result = entry.word \o <<" ">>
                              \o _process_number(IntOf(Slice(input, Len(entry.key) + 1,
                                                              Len(input))))

-----------------------------------------------------------------------------
(* C7 *)

\* C7: the output of process_text holds no bare symbol of the symbol table.
C7_NoBareSymbol == Returned => ~HasSymbol(result)

-----------------------------------------------------------------------------
(* C8 *)

\* the places of text where a number starts that has whitespace or none and
\* then '%' after it
PercentOccurrences(text) ==
    {i \in 1..Len(text) :
        /\ PercentMatchAt(text, i) # NoMatch
        /\ i > 1 => ~IsDigit(text[i - 1])
        /\ i > 2 => ~(text[i - 1] = "." /\ IsDigit(text[i - 2]))}

\* C8: every occurrence in the input of a number followed by whitespace or
\* none and '%' is rendered as "<the number in words> percent"; "15%" gives
\* "fifteen percent".
C8_PercentWords ==
    Finished =>
        /\ \A i \in PercentOccurrences(input) :
              /\ status = "returned"
              /\ Contains(result, NumeralWords(PercentMatchAt(input, i).number)
                                  \o <<" ","p","e","r","c","e","n","t">>)
        /\ input = <<"1","5","%">> => result = <<"f","i","f","t","e","e","n"," ","p","e","r","c","e","n","t">>

-----------------------------------------------------------------------------
(* C9 *)

\* C9: process_text leaves its own output as it is, when that output holds
\* no digit and no symbol of the symbol table: process_text(y) = y for
\* y = process_text(x).
C9_Idempotent ==
    (round = 2 /\ status \in {"returned", "raised"}
               /\ ~HasDigit(prev) /\ ~HasSymbol(prev)) =>
        (status = "returned" /\ result = prev)

C9_Witness ==
    /\ round = 2
    /\ status = "returned"
    /\ input = <<"R","s"," ","1","5","%">>
    /\ prev = <<"R","s"," ","f","i","f","t","e","e","n"," ","p","e","r","c","e","n","t">>
    /\ result = prev

-----------------------------------------------------------------------------
(* C10 *)

\* C10: process_text nests at most one level deep: the call started by
\* _handle_percentage or by _handle_currency gets a bare numeral, and starts
\* no further call.
C10_OneLevel ==
    /\ depth <= 2
    /\ (depth = 2 /\ top.pc = "letters") => IsBareNumeral(top.text)
    /\ (depth = 2) => stack[1].pc \in {"percent", "numerals"}

C10_Witness ==
    /\ depth = 2
    /\ stack[1].pc = "numerals"
    /\ stack[1].symbol = <<"$">>
    /\ top.pc = "return"
    /\ top.text = <<"s","e","v","e","n","t","e","e","n"," ","p","o","i","n","t"," ","f","i","v","e">>


-----------------------------------------------------------------------------
(* C11 *)

\* the prefixes of the table that, written as the table writes them, make
\* text together with digits and one '.' at the end, no digit after it
DottedPrefixesOf(text, table) ==
    {k \in 1..Len(table) :
        /\ Len(text) > Len(table[k].key) + 1
        /\ LitAt(text, 1, table[k].key)
        /\ text[Len(text)] = "."
        /\ IsInt(Slice(text, Len(table[k].key) + 1, Len(text) - 1))}

\* C11: in the letter-prefix pass the decimal converter and the word "point"
\* are used only when the digits are followed by '.' and at least one more
\* digit; a prefix code followed by digits and a '.' with no digit after it,
\* as "Fig1." at the end of a sentence, has its number put in words as an
\* integer, and the '.' stays in the output.
C11_DotWithoutDigitStays ==
    Finished =>
        \A k \in DottedPrefixesOf(input, letter_prefixes(script)) :
            LET entry == letter_prefixes(script)[k]
                number == Slice(input, Len(entry.key) + 1, Len(input) - 1)
            IN  /\ status = "returned"
                /\ ~Contains(result, <<"p","o","i","n","t">>)
                /\ result = entry.word \o <<" ">> \o _process_number(IntOf(number))
                              \o <<".">>

-----------------------------------------------------------------------------
(* C12 *)

\* C12: whenever process_text returns, its output holds no decimal digit:
\* every run of digits of the input is put in words by the letter-prefix
\* pass, the percentage pass or the numeral pass, and no pass writes a digit.
\* This is stated of every call, the nested ones of the percentage pass and
\* of the currency handler too, and of the call on the first call's output.
C12_NoDigitLeft ==
    /\ (status = "returned") => ~HasDigit(result)
    /\ \A k \in 1..depth : (stack[k].pc = "return") => ~HasDigit(stack[k].text)

\* an input with digits in several places, one for each pass, has returned
C12_Witness ==
    /\ Returned
    /\ input = <<"G","r","o","w","t","h"," ","r","a","t","e"," ","w","a","s"," ","1","5","%"," ","i","n"," ","Q","1"," ","&"," ","1","7",".","5","%"," ","i","n"," ","Q","2">>
    /\ ~HasDigit(result)
=============================================================================
